---------------------------- MODULE Spec2Model ----------------------------
(***************************************************************************)
(* Model of the App component (src/unnamed/part_001, lines 556-748): the   *)
(* React state of the component, its event handlers, the three onSnapshot  *)
(* subscriptions, and the Firestore collections the handlers write to.     *)
(*                                                                         *)
(* A handler that awaits a remote call is modelled in two steps: the       *)
(* synchronous part up to the await (which captures the state of the       *)
(* render the handler was created in and puts the call in `pending`), and  *)
(* the continuation after the await (Resume), which runs with the values   *)
(* captured at dispatch.  In between the store answers the call            *)
(* (StoreApply / StoreReject).                                             *)
(*                                                                         *)
(* Text fields are strings; '' is "".  Document identities are positive    *)
(* integers, and 0 stands for `null` in editingId.  Calendar dates are day *)
(* numbers; NoDate stands for the empty date string.                       *)
(***************************************************************************)
EXTENDS Integers, Sequences, FiniteSets, TLC

\* ----------------------------------------------------------------- bounds
MaxDocs == 2
MaxPending == 2
MaxUnguarded == 1
MaxClock == 2
NumCategories == 2
MaxViewDocs == 3
MaxAgeDays == 65

\* -------------------------------------------------------------- constants
NumStars == 5
TicksPerDay == 2
NoId == 0
NoDate == 0

categoryOptions == <<"canned", "raw", "pouch", "dry", "litter">>
DefaultCategory == "canned"
Tabs == {"food", "shopping", "weight"}

\* ----------------------------------------------------------- input ranges
CategoryInputs == {categoryOptions[i] : i \in 1..NumCategories}
BrandInputs == {"", "A"}
FlavorInputs == {"", "F"}
NotesInputs == {""}
StarInputs == {NumStars}
WeightInputs == {<<"2">>}
DateInputs == {1}
WeightTexts == {<<>>, <<"0">>, <<"-", "1">>, <<"2">>, <<"a">>}
WeightDates == {NoDate, 1}
Filters == {"all"} \cup CategoryInputs
SortKeys == {"date", "rating", "brand"}
ShopNameInputs == {"S"}
ShopNoteInputs == {""}

VARIABLES
    currentTab,
    foodRecords, category, brand, flavor, rating, notes,
    filterCategory, sortBy,
    weightRecords, weightInput, measureDate,
    shoppingList, shopName, shopNote,
    isSubmitting, editingId,
    dbRecords, dbWeight, dbShopping,
    pending, nextId, now,
    alertMsg, consoleErr

formVars == <<category, brand, flavor, rating, notes>>
weightFormVars == <<weightInput, measureDate>>
shopFormVars == <<shopName, shopNote>>
snapVars == <<foodRecords, weightRecords, shoppingList>>
dbVars == <<dbRecords, dbWeight, dbShopping>>
viewVars == <<filterCategory, sortBy>>
vars == <<currentTab, foodRecords, category, brand, flavor, rating, notes,
          filterCategory, sortBy,
          weightRecords, weightInput, measureDate,
          shoppingList, shopName, shopNote,
          isSubmitting, editingId,
          dbRecords, dbWeight, dbShopping,
          pending, nextId, now, alertMsg, consoleErr>>

\* ---------------------------------------------------------------- helpers
RemoveAt(s, i) == SubSeq(s, 1, i - 1) \o SubSeq(s, i + 1, Len(s))

Ids(snapshot) == {snapshot[i].id : i \in 1..Len(snapshot)}

\* Date.now() is later at each submission than at the one before (a
\* submission starts only after the previous one's round trip), up to the
\* bound
Later(t) == IF t < MaxClock THEN t + 1 ELSE t

\* new Date().toLocaleDateString() of the instant Date.now() returned
toLocaleDateString(ts) == ts \div TicksPerDay

\* { id: doc.id, ...doc.data() }
WithId(i, data) ==
    [f \in DOMAIN data \cup {"id"} |-> IF f = "id" THEN i ELSE data[f]]

\* updateDoc: the fields of `data` replace those of the document, the
\* others stay
Merge(docData, data) ==
    [f \in DOMAIN docData \cup DOMAIN data |->
        IF f \in DOMAIN data THEN data[f] ELSE docData[f]]

\* query(collection, orderBy(field, dir)): the documents holding the field,
\* ordered by it, ties by document identity in the same direction
RECURSIVE OrderedIds(_, _, _, _)
OrderedIds(db, ids, field, desc) ==
    IF ids = {} THEN <<>>
    ELSE LET first == CHOOSE i \in ids : \A j \in ids \ {i} :
                        IF desc
                        THEN \/ db[i][field] > db[j][field]
                             \/ db[i][field] = db[j][field] /\ i > j
                        ELSE \/ db[i][field] < db[j][field]
                             \/ db[i][field] = db[j][field] /\ i < j
         IN <<first>> \o OrderedIds(db, ids \ {first}, field, desc)

QuerySnapshot(db, field, desc) ==
    LET order == OrderedIds(db, DOMAIN db, field, desc)
    IN [k \in 1..Len(order) |-> WithId(order[k], db[order[k]])]

EmptyDb == [i \in {} |-> 0]

\* ------------------------------------------------------------- parseFloat
Digits == <<"0", "1", "2", "3", "4", "5", "6", "7", "8", "9">>
IsDigit(c) == \E d \in 1..10 : Digits[d] = c
DigitVal(c) == (CHOOSE d \in 1..10 : Digits[d] = c) - 1
NaN == -1000000

\* number of consecutive digits of s from position i on
RECURSIVE DigitRun(_, _)
DigitRun(s, i) ==
    IF i <= Len(s) /\ IsDigit(s[i]) THEN 1 + DigitRun(s, i + 1) ELSE 0

\* value of the n digits of s from position i on
RECURSIVE DigitsValue(_, _, _)
DigitsValue(s, i, n) ==
    IF n = 0 THEN 0
    ELSE DigitsValue(s, i, n - 1) * 10 + DigitVal(s[i + n - 1])

\* parseFloat(s) in hundredths: optional sign, digits, optional fraction;
\* the longest numeric prefix counts, and NaN when there is none
ParseFloat(s) ==
    LET neg == Len(s) >= 1 /\ s[1] = "-"
        start == IF Len(s) >= 1 /\ s[1] \in {"-", "+"} THEN 2 ELSE 1
        nInt == DigitRun(s, start)
        dot == start + nInt
        hasDot == dot <= Len(s) /\ s[dot] = "."
        nFrac == IF hasDot THEN DigitRun(s, dot + 1) ELSE 0
        intVal == DigitsValue(s, start, nInt)
        tenths == IF nFrac >= 1 THEN DigitVal(s[dot + 1]) ELSE 0
        hundredths == IF nFrac >= 2 THEN DigitVal(s[dot + 2]) ELSE 0
        magnitude == intVal * 100 + tenths * 10 + hundredths
    IN IF nInt = 0 /\ nFrac = 0 THEN NaN
       ELSE IF neg THEN 0 - magnitude ELSE magnitude

\* new Date(dateString).getTime()
getTime(date) == date * TicksPerDay

\* ------------------------------------------------------ calculateAgeLabel
\* the day number of the birth date "2025-04-01"
DUDU_BIRTHDAY == 100

\* the dates within MaxAgeDays days of the birth date, before and after
AgeDates == (DUDU_BIRTHDAY - MaxAgeDays)..(DUDU_BIRTHDAY + MaxAgeDays)

\* the dates picked for the chart: before, on and after the birth date
ChartDates == {DUDU_BIRTHDAY - 1, DUDU_BIRTHDAY, DUDU_BIRTHDAY + 35}

Abs(x) == IF x < 0 THEN 0 - x ELSE x

\* Math.ceil(a / b), b positive
Ceil(a, b) == 0 - ((0 - a) \div b)

\* `${n}`: the decimal digits of the integer n, as one-character strings
RECURSIVE Decimal(_)
Decimal(n) ==
    IF n < 0 THEN <<"-">> \o Decimal(0 - n)
    ELSE IF n < 10 THEN <<Digits[n + 1]>>
    ELSE Decimal(n \div 10) \o <<Digits[(n % 10) + 1]>>

\* the unit characters of the label, transliterated: "tian" is the day
\* character, "geyue" the two characters for months
Tian == <<"tian">>
GeYue == <<"geyue">>

\* mutant: the difference keeps its sign
calculateAgeLabelSigned(dateString) ==
    LET birth == getTime(DUDU_BIRTHDAY)
        target == getTime(dateString)
        diffTime == target - birth
        diffDays == Ceil(diffTime, TicksPerDay)
        months == diffDays \div 30
        days == diffDays % 30
    IN IF diffDays < 30 THEN Decimal(diffDays) \o Tian
       ELSE IF days < 5 THEN Decimal(months) \o GeYue
       ELSE Decimal(months) \o GeYue \o Decimal(days) \o Tian

\* mutant: the remainder is shown whatever it is
calculateAgeLabelWithRemainder(dateString) ==
    LET birth == getTime(DUDU_BIRTHDAY)
        target == getTime(dateString)
        diffTime == Abs(target - birth)
        diffDays == Ceil(diffTime, TicksPerDay)
        months == diffDays \div 30
        days == diffDays % 30
    IN IF diffDays < 30 THEN Decimal(diffDays) \o Tian
       ELSE Decimal(months) \o GeYue \o Decimal(days) \o Tian

\* the label is a sequence of one-character strings and unit marks
calculateAgeLabel(dateString) ==
    LET birth == getTime(DUDU_BIRTHDAY)
        target == getTime(dateString)
        diffTime == Abs(target - birth)
        diffDays == Ceil(diffTime, TicksPerDay)
        months == diffDays \div 30
        days == diffDays % 30
    IN IF diffDays < 30 THEN Decimal(diffDays) \o Tian
       ELSE IF days < 5 THEN Decimal(months) \o GeYue
       ELSE Decimal(months) \o GeYue \o Decimal(days) \o Tian

\* the value of <input type="number"> after the user typed `text`: the text
\* when it is a number, and '' otherwise
NumberInputValue(text) == IF ParseFloat(text) = NaN THEN <<>> ELSE text

Init ==
    /\ currentTab = "food"
    /\ foodRecords = <<>>
    /\ category = DefaultCategory
    /\ brand = ""
    /\ flavor = ""
    /\ rating = 0
    /\ notes = ""
    /\ filterCategory = "all"
    /\ sortBy = "date"
    /\ weightRecords = <<>>
    /\ weightInput = <<>>
    /\ measureDate \in DateInputs \ {NoDate}
    /\ shoppingList = <<>>
    /\ shopName = ""
    /\ shopNote = ""
    /\ isSubmitting = FALSE
    /\ editingId = NoId
    /\ dbRecords = EmptyDb
    /\ dbWeight = EmptyDb
    /\ dbShopping = EmptyDb
    /\ pending = <<>>
    /\ nextId = 1
    /\ now = 1
    /\ alertMsg = ""
    /\ consoleErr = FALSE


\* ------------------------------------------------------- messages (alert)
MsgNone == ""
MsgFoodInvalid == "fill in brand, flavor and rating"
MsgUpdated == "update succeeded"
MsgFoodFailed == "upload failed"
MsgWeightInvalid == "enter weight and date"
MsgWeightFailed == "weight upload failed"
MsgShopInvalid == "enter the product name"
MsgShopFailed == "add failed"

Quiet == alertMsg' = MsgNone /\ consoleErr' = FALSE

\* a remote call awaited by a handler, with what the handler's closure
\* holds for the code after the await
Call(handler, op, col, id, data) ==
    [handler |-> handler, op |-> op, col |-> col, id |-> id, data |-> data,
     editingId |-> editingId, status |-> "sent"]

NoData == [none |-> TRUE]

\* ------------------------------------------------------------ form inputs
setCurrentTab(t) ==
    /\ currentTab' = t
    /\ Quiet
    /\ UNCHANGED <<formVars, weightFormVars, shopFormVars, snapVars, dbVars,
                   isSubmitting, editingId, pending, nextId, now>>
    /\ UNCHANGED viewVars

\* the category <select> of the food form and of the shopping form
setCategory(c) ==
    /\ currentTab \in {"food", "shopping"}
    /\ category' = c
    /\ Quiet
    /\ UNCHANGED <<currentTab, brand, flavor, rating, notes, weightFormVars,
                   shopFormVars, snapVars, dbVars, isSubmitting, editingId,
                   pending, nextId, now>>
    /\ UNCHANGED viewVars

setBrand(b) ==
    /\ currentTab = "food"
    /\ brand' = b
    /\ Quiet
    /\ UNCHANGED <<currentTab, category, flavor, rating, notes,
                   weightFormVars, shopFormVars, snapVars, dbVars,
                   isSubmitting, editingId, pending, nextId, now>>
    /\ UNCHANGED viewVars

setFlavor(f) ==
    /\ currentTab = "food"
    /\ flavor' = f
    /\ Quiet
    /\ UNCHANGED <<currentTab, category, brand, rating, notes,
                   weightFormVars, shopFormVars, snapVars, dbVars,
                   isSubmitting, editingId, pending, nextId, now>>
    /\ UNCHANGED viewVars

\* a click on one of the stars [1, 2, 3, 4, 5]
setRating(star) ==
    /\ currentTab = "food"
    /\ star \in 1..NumStars
    /\ rating' = star
    /\ Quiet
    /\ UNCHANGED <<currentTab, category, brand, flavor, notes,
                   weightFormVars, shopFormVars, snapVars, dbVars,
                   isSubmitting, editingId, pending, nextId, now>>
    /\ UNCHANGED viewVars

setNotes(n) ==
    /\ currentTab = "food"
    /\ notes' = n
    /\ Quiet
    /\ UNCHANGED <<currentTab, category, brand, flavor, rating,
                   weightFormVars, shopFormVars, snapVars, dbVars,
                   isSubmitting, editingId, pending, nextId, now>>
    /\ UNCHANGED viewVars

\* ------------------------------------------------------- handleFoodSubmit
\* mutant: the rating is not validated
FoodInvalidNoRating == brand = "" \/ flavor = ""

FoodInvalid == brand = "" \/ flavor = "" \/ rating = 0

\* mutant: the update rewrites the creation-time fields
FoodUpdateDataWithDate ==
    [category |-> category, brand |-> brand, flavor |-> flavor,
     rating |-> rating, notes |-> notes,
     date |-> toLocaleDateString(now), timestamp |-> now]

\* the fields updateDoc is given
FoodUpdateData ==
    [category |-> category, brand |-> brand, flavor |-> flavor,
     rating |-> rating, notes |-> notes]

\* the fields addDoc is given, Date.now() having returned ts
FoodAddData(ts) ==
    [category |-> category, brand |-> brand, flavor |-> flavor,
     rating |-> rating, notes |-> notes,
     date |-> toLocaleDateString(ts), timestamp |-> ts]

\* mutant: the submission is an insert whatever the edit session
FoodCallAlwaysAdd(ts) ==
    Call("food", "add", "records", nextId, FoodAddData(ts))

\* the call handleFoodSubmit awaits: an update of the record being edited,
\* or an insert
FoodCall(ts) ==
    IF editingId # NoId
    THEN Call("food", "update", "records", editingId, FoodUpdateData)
    ELSE Call("food", "add", "records", nextId, FoodAddData(ts))

\* mutant: the submit buttons stay enabled during a submission
SubmitNeverDisabled == FALSE

\* disabled={isSubmitting} on the submit button of each of the three forms
SubmitDisabled == isSubmitting

handleFoodSubmit ==
    /\ currentTab = "food"
    /\ ~SubmitDisabled
    /\ IF FoodInvalid
       THEN /\ alertMsg' = MsgFoodInvalid
            /\ consoleErr' = FALSE
            /\ UNCHANGED <<isSubmitting, pending, nextId, now>>
       ELSE /\ Len(pending) < MaxPending
            /\ editingId = NoId => nextId <= MaxDocs
            /\ pending' = Append(pending, FoodCall(now))
            /\ now' = IF editingId = NoId THEN Later(now) ELSE now
            /\ nextId' = IF editingId = NoId THEN nextId + 1 ELSE nextId
            /\ isSubmitting' = TRUE
            /\ Quiet
    /\ UNCHANGED <<currentTab, formVars, weightFormVars, shopFormVars,
                   snapVars, dbVars, editingId>>
    /\ UNCHANGED viewVars

\* mutant: a performed update leaves the edit session open
EditingIdAfterSubmitKept(c) == editingId

\* setEditingId(null) on the update path only
EditingIdAfterSubmit(c) == IF c.editingId # NoId THEN NoId ELSE editingId

\* mutant: the category is not reset after an insert
CategoryAfterSubmitKept(c) == category

\* if (!editingId) setCategory('canned'), editingId being the captured one
CategoryAfterSubmit(c) ==
    IF c.editingId = NoId THEN DefaultCategory ELSE category

\* mutant: the flag is cleared on the success path only
FoodFinallyOnSuccessOnly(c) == c.status = "err"

\* finally { setIsSubmitting(false) }
FoodFinally(c) == FALSE

\* mutant: the catch block ends the edit session
handleFoodSubmitResumeEndsSession(k) ==
    /\ k \in 1..Len(pending)
    /\ pending[k].handler = "food"
    /\ pending[k].status \in {"ok", "err"}
    /\ LET c == pending[k] IN
       IF c.status = "ok"
       THEN /\ editingId' = EditingIdAfterSubmit(c)
            /\ alertMsg' = IF c.editingId # NoId THEN MsgUpdated ELSE MsgNone
            /\ consoleErr' = FALSE
            /\ brand' = ""
            /\ flavor' = ""
            /\ rating' = 0
            /\ notes' = ""
            /\ category' = CategoryAfterSubmit(c)
       ELSE /\ consoleErr' = TRUE
            /\ alertMsg' = MsgFoodFailed
            /\ editingId' = NoId
            /\ UNCHANGED formVars
    /\ isSubmitting' = FoodFinally(pending[k])
    /\ pending' = RemoveAt(pending, k)
    /\ UNCHANGED <<currentTab, weightFormVars, shopFormVars, snapVars,
                   dbVars, nextId, now>>
    /\ UNCHANGED viewVars

\* the code after the await, for the call c at position k
handleFoodSubmitResume(k) ==
    /\ k \in 1..Len(pending)
    /\ pending[k].handler = "food"
    /\ pending[k].status \in {"ok", "err"}
    /\ LET c == pending[k] IN
       IF c.status = "ok"
       THEN /\ editingId' = EditingIdAfterSubmit(c)
            /\ alertMsg' = IF c.editingId # NoId THEN MsgUpdated ELSE MsgNone
            /\ consoleErr' = FALSE
            /\ brand' = ""
            /\ flavor' = ""
            /\ rating' = 0
            /\ notes' = ""
            /\ category' = CategoryAfterSubmit(c)
       ELSE /\ consoleErr' = TRUE
            /\ alertMsg' = MsgFoodFailed
            /\ UNCHANGED <<formVars, editingId>>
    /\ isSubmitting' = FoodFinally(pending[k])
    /\ pending' = RemoveAt(pending, k)
    /\ UNCHANGED <<currentTab, weightFormVars, shopFormVars, snapVars,
                   dbVars, nextId, now>>
    /\ UNCHANGED viewVars

\* ------------------------------------------------------- displayedRecords
\* the brand texts of the model in the order of the zh-TW collation
Collation == <<"", "A", "B">>

\* a.localeCompare(b, 'zh-TW'): negative, zero or positive
localeCompare(a, b) ==
    (CHOOSE i \in 1..Len(Collation) : Collation[i] = a)
      - (CHOOSE i \in 1..Len(Collation) : Collation[i] = b)

\* mutant: the ratings are compared in ascending order
compareRatingAscending(a, b, key) ==
    CASE key = "date" -> b.timestamp - a.timestamp
      [] key = "rating" -> a.rating - b.rating
      [] key = "brand" -> localeCompare(a.brand, b.brand)
      [] OTHER -> 0

\* the comparator given to sort
compare(a, b, key) ==
    CASE key = "date" -> b.timestamp - a.timestamp
      [] key = "rating" -> b.rating - a.rating
      [] key = "brand" -> localeCompare(a.brand, b.brand)
      [] OTHER -> 0

\* arr.filter(...): a new array with the records of the chosen category
ArrayFilter(arr, filter) ==
    LET Test(rec) == IF filter = "all" THEN TRUE ELSE rec.category = filter
    IN SelectSeq(arr, Test)

\* x inserted in the sorted array after every element that is not to come
\* after it
RECURSIVE InsertSorted(_, _, _)
InsertSorted(sorted, x, key) ==
    IF sorted = <<>> THEN <<x>>
    ELSE IF compare(sorted[Len(sorted)], x, key) <= 0
         THEN Append(sorted, x)
         ELSE Append(InsertSorted(SubSeq(sorted, 1, Len(sorted) - 1), x, key),
                     sorted[Len(sorted)])

\* arr.sort(comparator): the elements of arr in the comparator's order,
\* those it holds equal in the order they had (the sort is stable)
RECURSIVE ArraySort(_, _)
ArraySort(arr, key) ==
    IF arr = <<>> THEN <<>>
    ELSE InsertSorted(ArraySort(SubSeq(arr, 1, Len(arr) - 1), key),
                      arr[Len(arr)], key)

\* mutant: the array held in state is sorted in place, then filtered
RenderSortingInPlace(records, filter, key) ==
    [snapshot |-> ArraySort(records, key),
     displayed |-> ArrayFilter(ArraySort(records, key), filter)]

\* the computation of displayedRecords in a render: filter returns a new
\* array, and sort orders that array in place; `snapshot` is the array held
\* in state afterwards and `displayed` the projection
Render(records, filter, key) ==
    [snapshot |-> records,
     displayed |-> ArraySort(ArrayFilter(records, filter), key)]

displayedRecords == Render(foodRecords, filterCategory, sortBy).displayed

\* the filter <select>, and the render that follows
setFilterCategory(f) ==
    /\ currentTab = "food"
    /\ filterCategory' = f
    /\ foodRecords' = Render(foodRecords, f, sortBy).snapshot
    /\ Quiet
    /\ UNCHANGED <<currentTab, formVars, weightFormVars, shopFormVars,
                   weightRecords, shoppingList, dbVars, isSubmitting,
                   editingId, pending, nextId, now, sortBy>>

\* the sort <select>, and the render that follows
setSortBy(key) ==
    /\ currentTab = "food"
    /\ sortBy' = key
    /\ foodRecords' = Render(foodRecords, filterCategory, key).snapshot
    /\ Quiet
    /\ UNCHANGED <<currentTab, formVars, weightFormVars, shopFormVars,
                   weightRecords, shoppingList, dbVars, isSubmitting,
                   editingId, pending, nextId, now, filterCategory>>

\* ------------------------------------------------ edit session, deletion
\* mutant: the category of the record is not staged
handleEditKeepsCategory(rec) ==
    /\ currentTab = "food"
    /\ \E i \in 1..Len(foodRecords) : foodRecords[i] = rec
    /\ editingId' = rec.id
    /\ brand' = rec.brand
    /\ flavor' = rec.flavor
    /\ rating' = rec.rating
    /\ notes' = rec.notes
    /\ Quiet
    /\ UNCHANGED <<currentTab, category, weightFormVars, shopFormVars,
                   snapVars, dbVars, isSubmitting, pending, nextId, now>>
    /\ UNCHANGED viewVars

handleEdit(rec) ==
    /\ currentTab = "food"
    /\ \E i \in 1..Len(foodRecords) : foodRecords[i] = rec
    /\ editingId' = rec.id
    /\ category' = rec.category
    /\ brand' = rec.brand
    /\ flavor' = rec.flavor
    /\ rating' = rec.rating
    /\ notes' = rec.notes
    /\ Quiet
    /\ UNCHANGED <<currentTab, weightFormVars, shopFormVars, snapVars,
                   dbVars, isSubmitting, pending, nextId, now>>
    /\ UNCHANGED viewVars

\* mutant: cancel leaves the staged brand in the form
CancelEditEffectKeepsBrand ==
    /\ editingId' = NoId
    /\ flavor' = ""
    /\ rating' = 0
    /\ notes' = ""
    /\ UNCHANGED <<category, brand>>

\* what handleCancelEdit assigns
CancelEditEffect ==
    /\ editingId' = NoId
    /\ brand' = ""
    /\ flavor' = ""
    /\ rating' = 0
    /\ notes' = ""
    /\ UNCHANGED category

\* the cancel button is rendered only while editingId is set
handleCancelEdit ==
    /\ currentTab = "food"
    /\ editingId # NoId
    /\ CancelEditEffect
    /\ Quiet
    /\ UNCHANGED <<currentTab, weightFormVars, shopFormVars, snapVars,
                   dbVars, isSubmitting, pending, nextId, now>>
    /\ UNCHANGED viewVars

\* the calls in flight that no flag limits (delete, toggle)
Unguarded ==
    Cardinality({k \in 1..Len(pending) :
                    pending[k].handler \in {"delete", "toggle"}})

\* the list each tab renders delete buttons for
ListOf(col) ==
    CASE col = "records" -> foodRecords
      [] col = "weight_records" -> weightRecords
      [] col = "shopping_list" -> shoppingList

TabOf(col) ==
    CASE col = "records" -> "food"
      [] col = "weight_records" -> "weight"
      [] col = "shopping_list" -> "shopping"

Collections == {"records", "weight_records", "shopping_list"}

\* mutant: the delete is issued whatever window.confirm returned
handleDeleteUnasked(id, colName, confirmed) ==
    /\ colName \in Collections
    /\ currentTab = TabOf(colName)
    /\ id \in Ids(ListOf(colName))
    /\ Len(pending) < MaxPending
    /\ Unguarded < MaxUnguarded
    /\ pending' = Append(pending,
                    Call("delete", "delete", colName, id, NoData))
    /\ Quiet
    /\ UNCHANGED <<currentTab, formVars, weightFormVars, shopFormVars,
                   snapVars, dbVars, isSubmitting, editingId, nextId, now>>
    /\ UNCHANGED viewVars

\* up to the await: window.confirm answered by `confirmed`
handleDelete(id, colName, confirmed) ==
    /\ colName \in Collections
    /\ currentTab = TabOf(colName)
    /\ id \in Ids(ListOf(colName))
    /\ IF confirmed
       THEN /\ Len(pending) < MaxPending
            /\ Unguarded < MaxUnguarded
            /\ pending' = Append(pending,
                            Call("delete", "delete", colName, id, NoData))
       ELSE UNCHANGED pending
    /\ Quiet
    /\ UNCHANGED <<currentTab, formVars, weightFormVars, shopFormVars,
                   snapVars, dbVars, isSubmitting, editingId, nextId, now>>
    /\ UNCHANGED viewVars

\* after the await: nothing catches a rejection, so the rest is skipped
handleDeleteResume(k) ==
    /\ k \in 1..Len(pending)
    /\ pending[k].handler = "delete"
    /\ pending[k].status \in {"ok", "err"}
    /\ LET c == pending[k] IN
       IF c.status = "ok" /\ c.editingId = c.id
       THEN CancelEditEffect
       ELSE UNCHANGED <<formVars, editingId>>
    /\ Quiet
    /\ pending' = RemoveAt(pending, k)
    /\ UNCHANGED <<currentTab, weightFormVars, shopFormVars, snapVars,
                   dbVars, isSubmitting, nextId, now>>
    /\ UNCHANGED viewVars

\* ----------------------------------------------------- handleWeightSubmit
setWeightInput(w) ==
    /\ currentTab = "weight"
    /\ weightInput' = w
    /\ Quiet
    /\ UNCHANGED <<currentTab, formVars, measureDate, shopFormVars, snapVars,
                   dbVars, isSubmitting, editingId, pending, nextId, now>>
    /\ UNCHANGED viewVars

setMeasureDate(d) ==
    /\ currentTab = "weight"
    /\ measureDate' = d
    /\ Quiet
    /\ UNCHANGED <<currentTab, formVars, weightInput, shopFormVars, snapVars,
                   dbVars, isSubmitting, editingId, pending, nextId, now>>
    /\ UNCHANGED viewVars

WeightInvalid == weightInput = <<>> \/ measureDate = NoDate

WeightAddData ==
    [weight |-> ParseFloat(weightInput), date |-> measureDate,
     timestamp |-> getTime(measureDate)]

handleWeightSubmit ==
    /\ currentTab = "weight"
    /\ ~SubmitDisabled
    /\ IF WeightInvalid
       THEN /\ alertMsg' = MsgWeightInvalid
            /\ consoleErr' = FALSE
            /\ UNCHANGED <<isSubmitting, pending, nextId>>
       ELSE /\ Len(pending) < MaxPending
            /\ nextId <= MaxDocs
            /\ pending' = Append(pending,
                 Call("weight", "add", "weight_records", nextId,
                      WeightAddData))
            /\ nextId' = nextId + 1
            /\ isSubmitting' = TRUE
            /\ Quiet
    /\ UNCHANGED <<currentTab, formVars, weightFormVars, shopFormVars,
                   snapVars, dbVars, editingId, now>>
    /\ UNCHANGED viewVars

\* mutant: the flag is cleared on the success path only
WeightFinallyOnSuccessOnly(c) == c.status = "err"

\* finally { setIsSubmitting(false) }
WeightFinally(c) == FALSE

handleWeightSubmitResume(k) ==
    /\ k \in 1..Len(pending)
    /\ pending[k].handler = "weight"
    /\ pending[k].status \in {"ok", "err"}
    /\ IF pending[k].status = "ok"
       THEN /\ weightInput' = <<>>
            /\ Quiet
       ELSE /\ consoleErr' = TRUE
            /\ alertMsg' = MsgWeightFailed
            /\ UNCHANGED weightInput
    /\ isSubmitting' = WeightFinally(pending[k])
    /\ pending' = RemoveAt(pending, k)
    /\ UNCHANGED <<currentTab, formVars, measureDate, shopFormVars, snapVars,
                   dbVars, editingId, nextId, now>>
    /\ UNCHANGED viewVars

\* --------------------------------------------------- handleShoppingSubmit
setShopName(n) ==
    /\ currentTab = "shopping"
    /\ shopName' = n
    /\ Quiet
    /\ UNCHANGED <<currentTab, formVars, weightFormVars, shopNote, snapVars,
                   dbVars, isSubmitting, editingId, pending, nextId, now>>
    /\ UNCHANGED viewVars

setShopNote(n) ==
    /\ currentTab = "shopping"
    /\ shopNote' = n
    /\ Quiet
    /\ UNCHANGED <<currentTab, formVars, weightFormVars, shopName, snapVars,
                   dbVars, isSubmitting, editingId, pending, nextId, now>>
    /\ UNCHANGED viewVars

\* mutant: the name is not validated
ShopNeverInvalid == FALSE

ShopInvalid == shopName = ""

ShopAddData(ts) ==
    [category |-> category, name |-> shopName, note |-> shopNote,
     isBought |-> FALSE, timestamp |-> ts]

handleShoppingSubmit ==
    /\ currentTab = "shopping"
    /\ ~SubmitDisabled
    /\ IF ShopInvalid
       THEN /\ alertMsg' = MsgShopInvalid
            /\ consoleErr' = FALSE
            /\ UNCHANGED <<isSubmitting, pending, nextId, now>>
       ELSE /\ Len(pending) < MaxPending
            /\ nextId <= MaxDocs
            /\ pending' = Append(pending,
                 Call("shopping", "add", "shopping_list", nextId,
                      ShopAddData(now)))
            /\ now' = Later(now)
            /\ nextId' = nextId + 1
            /\ isSubmitting' = TRUE
            /\ Quiet
    /\ UNCHANGED <<currentTab, formVars, weightFormVars, shopFormVars,
                   snapVars, dbVars, editingId>>
    /\ UNCHANGED viewVars

\* finally { setIsSubmitting(false) }
ShoppingFinally(c) == FALSE

handleShoppingSubmitResume(k) ==
    /\ k \in 1..Len(pending)
    /\ pending[k].handler = "shopping"
    /\ pending[k].status \in {"ok", "err"}
    /\ IF pending[k].status = "ok"
       THEN /\ shopName' = ""
            /\ shopNote' = ""
            /\ Quiet
       ELSE /\ consoleErr' = TRUE
            /\ alertMsg' = MsgShopFailed
            /\ UNCHANGED shopFormVars
    /\ isSubmitting' = ShoppingFinally(pending[k])
    /\ pending' = RemoveAt(pending, k)
    /\ UNCHANGED <<currentTab, formVars, weightFormVars, snapVars, dbVars,
                   editingId, nextId, now>>
    /\ UNCHANGED viewVars

\* ----------------------------------------------------------- toggleBought
\* mutant: the update rewrites the whole item
ToggleDataWholeItem(item) ==
    [category |-> item.category, name |-> item.name, note |-> item.note,
     isBought |-> ~item.isBought, timestamp |-> now]

\* the fields updateDoc is given
ToggleData(item) == [isBought |-> ~item.isBought]

\* mutant: the checkbox is flipped in the local list before the store
\* answers
toggleBoughtOptimistic(item) ==
    /\ currentTab = "shopping"
    /\ \E i \in 1..Len(shoppingList) : shoppingList[i] = item
    /\ Len(pending) < MaxPending
    /\ Unguarded < MaxUnguarded
    /\ pending' = Append(pending,
         Call("toggle", "update", "shopping_list", item.id,
              ToggleData(item)))
    /\ shoppingList' =
         [i \in 1..Len(shoppingList) |->
             IF shoppingList[i].id = item.id
             THEN [shoppingList[i] EXCEPT !.isBought = ~item.isBought]
             ELSE shoppingList[i]]
    /\ Quiet
    /\ UNCHANGED <<currentTab, formVars, weightFormVars, shopFormVars,
                   foodRecords, weightRecords, dbVars, isSubmitting,
                   editingId, nextId, now>>
    /\ UNCHANGED viewVars

\* the checkbox of an item of the rendered shopping list
toggleBought(item) ==
    /\ currentTab = "shopping"
    /\ \E i \in 1..Len(shoppingList) : shoppingList[i] = item
    /\ Len(pending) < MaxPending
    /\ Unguarded < MaxUnguarded
    /\ pending' = Append(pending,
         Call("toggle", "update", "shopping_list", item.id,
              ToggleData(item)))
    /\ Quiet
    /\ UNCHANGED <<currentTab, formVars, weightFormVars, shopFormVars,
                   snapVars, dbVars, isSubmitting, editingId, nextId, now>>
    /\ UNCHANGED viewVars

toggleBoughtResume(k) ==
    /\ k \in 1..Len(pending)
    /\ pending[k].handler = "toggle"
    /\ pending[k].status \in {"ok", "err"}
    /\ consoleErr' = (pending[k].status = "err")
    /\ alertMsg' = MsgNone
    /\ pending' = RemoveAt(pending, k)
    /\ UNCHANGED <<currentTab, formVars, weightFormVars, shopFormVars,
                   snapVars, dbVars, isSubmitting, editingId, nextId, now>>
    /\ UNCHANGED viewVars

\* ------------------------------------------------------------- the store
Db(col) ==
    CASE col = "records" -> dbRecords
      [] col = "weight_records" -> dbWeight
      [] col = "shopping_list" -> dbShopping

\* the collection after addDoc / updateDoc / deleteDoc of call c
Applied(db, c) ==
    CASE c.op = "add" ->
           [i \in DOMAIN db \cup {c.id} |->
               IF i = c.id THEN c.data ELSE db[i]]
      [] c.op = "update" ->
           [i \in DOMAIN db |->
               IF i = c.id THEN Merge(db[i], c.data) ELSE db[i]]
      [] c.op = "delete" ->
           [i \in DOMAIN db \ {c.id} |-> db[i]]

SetDb(col, db) ==
    /\ dbRecords' = IF col = "records" THEN db ELSE dbRecords
    /\ dbWeight' = IF col = "weight_records" THEN db ELSE dbWeight
    /\ dbShopping' = IF col = "shopping_list" THEN db ELSE dbShopping

\* the store performs the write and acknowledges it; an update of a
\* document that does not exist is never performed
StoreApply(k) ==
    /\ k \in 1..Len(pending)
    /\ pending[k].status = "sent"
    /\ LET c == pending[k] IN
       /\ c.op = "update" => c.id \in DOMAIN Db(c.col)
       /\ SetDb(c.col, Applied(Db(c.col), c))
    /\ pending' = [pending EXCEPT ![k].status = "ok"]
    /\ UNCHANGED <<currentTab, formVars, weightFormVars, shopFormVars,
                   snapVars, isSubmitting, editingId, nextId, now,
                   alertMsg, consoleErr>>
    /\ UNCHANGED viewVars

\* the write fails (network, rules, or update of a missing document)
StoreReject(k) ==
    /\ k \in 1..Len(pending)
    /\ pending[k].status = "sent"
    /\ pending' = [pending EXCEPT ![k].status = "err"]
    /\ UNCHANGED <<currentTab, formVars, weightFormVars, shopFormVars,
                   snapVars, dbVars, isSubmitting, editingId, nextId, now,
                   alertMsg, consoleErr>>
    /\ UNCHANGED viewVars

\* another client deletes a food record
OtherClientDelete(id) ==
    /\ id \in DOMAIN dbRecords
    /\ dbRecords' = [i \in DOMAIN dbRecords \ {id} |-> dbRecords[i]]
    /\ UNCHANGED <<currentTab, formVars, weightFormVars, shopFormVars,
                   snapVars, dbWeight, dbShopping, isSubmitting, editingId,
                   pending, nextId, now, alertMsg, consoleErr>>
    /\ UNCHANGED viewVars

\* ------------------------------------------------- onSnapshot callbacks
\* mutant: the records of the previous list that the delivery lacks are
\* kept at the end of the new list
FoodSnapshotMerging ==
    /\ foodRecords # QuerySnapshot(dbRecords, "timestamp", TRUE)
    /\ LET Gone(rec) == rec.id \notin DOMAIN dbRecords
       IN foodRecords' = QuerySnapshot(dbRecords, "timestamp", TRUE)
                           \o SelectSeq(foodRecords, Gone)
    /\ UNCHANGED <<currentTab, formVars, weightFormVars, shopFormVars,
                   weightRecords, shoppingList, dbVars, isSubmitting,
                   editingId, pending, nextId, now, alertMsg, consoleErr>>
    /\ UNCHANGED viewVars

FoodSnapshot ==
    /\ foodRecords # QuerySnapshot(dbRecords, "timestamp", TRUE)
    /\ foodRecords' = QuerySnapshot(dbRecords, "timestamp", TRUE)
    /\ UNCHANGED <<currentTab, formVars, weightFormVars, shopFormVars,
                   weightRecords, shoppingList, dbVars, isSubmitting,
                   editingId, pending, nextId, now, alertMsg, consoleErr>>
    /\ UNCHANGED viewVars

WeightSnapshot ==
    /\ weightRecords # QuerySnapshot(dbWeight, "date", FALSE)
    /\ weightRecords' = QuerySnapshot(dbWeight, "date", FALSE)
    /\ UNCHANGED <<currentTab, formVars, weightFormVars, shopFormVars,
                   foodRecords, shoppingList, dbVars, isSubmitting,
                   editingId, pending, nextId, now, alertMsg, consoleErr>>
    /\ UNCHANGED viewVars

\* mutant: only the first snapshot of the shopping list is delivered
ShoppingSnapshotOnce ==
    /\ shoppingList = <<>>
    /\ shoppingList # QuerySnapshot(dbShopping, "timestamp", TRUE)
    /\ shoppingList' = QuerySnapshot(dbShopping, "timestamp", TRUE)
    /\ UNCHANGED <<currentTab, formVars, weightFormVars, shopFormVars,
                   foodRecords, weightRecords, dbVars, isSubmitting,
                   editingId, pending, nextId, now, alertMsg, consoleErr>>
    /\ UNCHANGED viewVars

ShoppingSnapshot ==
    /\ shoppingList # QuerySnapshot(dbShopping, "timestamp", TRUE)
    /\ shoppingList' = QuerySnapshot(dbShopping, "timestamp", TRUE)
    /\ UNCHANGED <<currentTab, formVars, weightFormVars, shopFormVars,
                   foodRecords, weightRecords, dbVars, isSubmitting,
                   editingId, pending, nextId, now, alertMsg, consoleErr>>
    /\ UNCHANGED viewVars

\* ------------------------------------------------------ the specification
FoodInput ==
    \/ \E c \in CategoryInputs : setCategory(c)
    \/ \E b \in BrandInputs : setBrand(b)
    \/ \E f \in FlavorInputs : setFlavor(f)
    \/ \E star \in StarInputs : setRating(star)
    \/ \E n \in NotesInputs : setNotes(n)

\* the food tab: the form, the edit session, the records list, the store and
\* the other clients
Next ==
    \/ FoodInput
    \/ handleFoodSubmit
    \/ \E i \in 1..Len(foodRecords) : handleEdit(foodRecords[i])
    \/ handleCancelEdit
    \/ \E id \in Ids(foodRecords) :
         \E confirmed \in BOOLEAN : handleDelete(id, "records", confirmed)
    \/ \E k \in 1..Len(pending) :
         \/ StoreApply(k)
         \/ StoreReject(k)
         \/ handleFoodSubmitResume(k)
         \/ handleDeleteResume(k)
    \/ \E id \in DOMAIN dbRecords : OtherClientDelete(id)
    \/ FoodSnapshot

Spec == Init /\ [][Next]_vars

\* the three tabs with one value for each text input
TabsNext ==
    \/ \E t \in Tabs : setCurrentTab(t)
    \/ setBrand("A")
    \/ setFlavor("F")
    \/ setRating(NumStars)
    \/ \E w \in WeightInputs : setWeightInput(w)
    \/ \E n \in ShopNameInputs : setShopName(n)
    \/ handleFoodSubmit
    \/ handleWeightSubmit
    \/ handleShoppingSubmit
    \/ \E i \in 1..Len(foodRecords) : handleEdit(foodRecords[i])
    \/ handleCancelEdit
    \/ \E col \in Collections : \E id \in Ids(ListOf(col)) :
         handleDelete(id, col, TRUE)
    \/ \E k \in 1..Len(pending) :
         \/ StoreApply(k)
         \/ StoreReject(k)
         \/ handleFoodSubmitResume(k)
         \/ handleWeightSubmitResume(k)
         \/ handleShoppingSubmitResume(k)
         \/ handleDeleteResume(k)
    \/ FoodSnapshot
    \/ WeightSnapshot
    \/ ShoppingSnapshot

TabsSpec == Init /\ [][TabsNext]_vars

\* the store answers each call, and the event loop runs the continuation of
\* each answered call (a submission's, a delete's)
AnswersSubmission ==
    \E k \in 1..MaxPending :
        /\ k <= Len(pending)
        /\ pending[k].handler \in {"food", "weight", "shopping"}
        /\ (StoreApply(k) \/ StoreReject(k))

AnswersDelete ==
    \E k \in 1..MaxPending :
        /\ k <= Len(pending)
        /\ pending[k].handler = "delete"
        /\ (StoreApply(k) \/ StoreReject(k))

ResumesSubmission ==
    \E k \in 1..MaxPending :
        \/ handleFoodSubmitResume(k)
        \/ handleWeightSubmitResume(k)
        \/ handleShoppingSubmitResume(k)

ResumesDelete == \E k \in 1..MaxPending : handleDeleteResume(k)

\* the three forms and their submissions, with edits and deletes of food
\* records
FlagNext ==
    \/ \E t \in Tabs : setCurrentTab(t)
    \/ setBrand("A")
    \/ setFlavor("F")
    \/ setRating(NumStars)
    \/ \E w \in WeightInputs : setWeightInput(w)
    \/ \E n \in ShopNameInputs : setShopName(n)
    \/ handleFoodSubmit
    \/ handleWeightSubmit
    \/ handleShoppingSubmit
    \/ \E i \in 1..Len(foodRecords) : handleEdit(foodRecords[i])
    \/ \E id \in Ids(foodRecords) : handleDelete(id, "records", TRUE)
    \/ \E k \in 1..Len(pending) :
         \/ StoreApply(k)
         \/ StoreReject(k)
         \/ handleFoodSubmitResume(k)
         \/ handleWeightSubmitResume(k)
         \/ handleShoppingSubmitResume(k)
         \/ handleDeleteResume(k)
    \/ FoodSnapshot

FairFlagSpec ==
    /\ Init
    /\ [][FlagNext]_vars
    /\ WF_vars(AnswersSubmission)
    /\ WF_vars(AnswersDelete)
    /\ WF_vars(ResumesSubmission)
    /\ WF_vars(ResumesDelete)

\* the three lists with their delete buttons (confirmed or declined) and the
\* checkboxes of the shopping list, with one value for each text input
ListsNext ==
    \/ \E t \in Tabs : setCurrentTab(t)
    \/ setBrand("A")
    \/ setFlavor("F")
    \/ setRating(NumStars)
    \/ \E w \in WeightInputs : setWeightInput(w)
    \/ \E n \in ShopNameInputs : setShopName(n)
    \/ handleFoodSubmit
    \/ handleWeightSubmit
    \/ handleShoppingSubmit
    \/ \E i \in 1..Len(foodRecords) : handleEdit(foodRecords[i])
    \/ \E col \in Collections : \E id \in Ids(ListOf(col)) :
         \E confirmed \in BOOLEAN : handleDelete(id, col, confirmed)
    \/ \E i \in 1..Len(shoppingList) : toggleBought(shoppingList[i])
    \/ \E k \in 1..Len(pending) :
         \/ StoreApply(k)
         \/ StoreReject(k)
         \/ handleFoodSubmitResume(k)
         \/ handleWeightSubmitResume(k)
         \/ handleShoppingSubmitResume(k)
         \/ handleDeleteResume(k)
         \/ toggleBoughtResume(k)
    \/ FoodSnapshot
    \/ WeightSnapshot
    \/ ShoppingSnapshot

ListsSpec == Init /\ [][ListsNext]_vars

\* the food tab with each of the five stars, one brand and one flavor
RatingNext ==
    \/ setBrand("A")
    \/ setFlavor("F")
    \/ \E star \in 1..NumStars : setRating(star)
    \/ handleFoodSubmit
    \/ \E i \in 1..Len(foodRecords) : handleEdit(foodRecords[i])
    \/ handleCancelEdit
    \/ \E k \in 1..Len(pending) :
         \/ StoreApply(k)
         \/ StoreReject(k)
         \/ handleFoodSubmitResume(k)
    \/ FoodSnapshot

RatingSpec == Init /\ [][RatingNext]_vars

\* mutant: every point carries the label of the date in the form
chartDataLabelOfForm ==
    [i \in 1..Len(weightRecords) |->
        Merge(weightRecords[i],
              [ageLabel |-> calculateAgeLabel(measureDate)])]

\* the rows of the weight list and the points of the chart, each with the
\* age label of its date
chartData ==
    [i \in 1..Len(weightRecords) |->
        Merge(weightRecords[i],
              [ageLabel |-> calculateAgeLabel(weightRecords[i].date)])]

\* the component mounted on any day within MaxAgeDays days of the birth
\* date: measureDate starts as that day
AgeInit ==
    /\ currentTab = "food"
    /\ foodRecords = <<>>
    /\ category = DefaultCategory
    /\ brand = ""
    /\ flavor = ""
    /\ rating = 0
    /\ notes = ""
    /\ filterCategory = "all"
    /\ sortBy = "date"
    /\ weightRecords = <<>>
    /\ weightInput = <<>>
    /\ measureDate \in AgeDates
    /\ shoppingList = <<>>
    /\ shopName = ""
    /\ shopNote = ""
    /\ isSubmitting = FALSE
    /\ editingId = NoId
    /\ dbRecords = EmptyDb
    /\ dbWeight = EmptyDb
    /\ dbShopping = EmptyDb
    /\ pending = <<>>
    /\ nextId = 1
    /\ now = 1
    /\ alertMsg = ""
    /\ consoleErr = FALSE

\* weights recorded on that day, listed and charted with their age label
AgeNext ==
    \/ setCurrentTab("weight")
    \/ \E w \in WeightInputs : setWeightInput(w)
    \/ handleWeightSubmit
    \/ \E k \in 1..Len(pending) :
         \/ StoreApply(k)
         \/ StoreReject(k)
         \/ handleWeightSubmitResume(k)
    \/ WeightSnapshot

AgeSpec == AgeInit /\ [][AgeNext]_vars

\* the food records another session may have stored before this one starts
ViewDocs ==
    {[category |-> c, brand |-> b, flavor |-> "F", rating |-> r, notes |-> "",
      date |-> toLocaleDateString(ts), timestamp |-> ts] :
        c \in CategoryInputs, b \in {"A", "B"}, r \in {3, NumStars},
        ts \in 1..MaxClock}

\* the component mounted while the store holds up to MaxViewDocs food
\* records
ViewInit ==
    /\ currentTab = "food"
    /\ foodRecords = <<>>
    /\ category = DefaultCategory
    /\ brand = ""
    /\ flavor = ""
    /\ rating = 0
    /\ notes = ""
    /\ filterCategory = "all"
    /\ sortBy = "date"
    /\ weightRecords = <<>>
    /\ weightInput = <<>>
    /\ measureDate \in DateInputs \ {NoDate}
    /\ shoppingList = <<>>
    /\ shopName = ""
    /\ shopNote = ""
    /\ isSubmitting = FALSE
    /\ editingId = NoId
    /\ \E n \in 0..MaxViewDocs :
         /\ dbRecords \in [1..n -> ViewDocs]
         /\ nextId = n + 1
    /\ dbWeight = EmptyDb
    /\ dbShopping = EmptyDb
    /\ pending = <<>>
    /\ now = MaxClock
    /\ alertMsg = ""
    /\ consoleErr = FALSE

\* the records list with its filter and sort selects
ViewNext ==
    \/ \E f \in Filters : setFilterCategory(f)
    \/ \E key \in SortKeys : setSortBy(key)
    \/ \E id \in DOMAIN dbRecords : OtherClientDelete(id)
    \/ FoodSnapshot

ViewSpec == ViewInit /\ [][ViewNext]_vars

\* weights recorded on days before, on and after the birth date, and the
\* chart drawn from them
ChartNext ==
    \/ setCurrentTab("weight")
    \/ \E text \in WeightTexts : setWeightInput(NumberInputValue(text))
    \/ \E d \in ChartDates : setMeasureDate(d)
    \/ handleWeightSubmit
    \/ \E id \in Ids(weightRecords) :
         handleDelete(id, "weight_records", TRUE)
    \/ \E k \in 1..Len(pending) :
         \/ StoreApply(k)
         \/ StoreReject(k)
         \/ handleWeightSubmitResume(k)
         \/ handleDeleteResume(k)
    \/ WeightSnapshot

ChartSpec == Init /\ [][ChartNext]_vars

\* another client performs an update of some fields of a food record
OtherClientUpdate(id, data) ==
    /\ id \in DOMAIN dbRecords
    /\ dbRecords[id] # Merge(dbRecords[id], data)
    /\ dbRecords' = [dbRecords EXCEPT ![id] = Merge(@, data)]
    /\ UNCHANGED <<currentTab, formVars, weightFormVars, shopFormVars,
                   snapVars, dbWeight, dbShopping, isSubmitting, editingId,
                   pending, nextId, now, alertMsg, consoleErr>>
    /\ UNCHANGED viewVars

\* the food record that the store holds when this client starts
ClientsDoc ==
    [category |-> DefaultCategory, brand |-> "A", flavor |-> "F",
     rating |-> NumStars, notes |-> "", date |-> toLocaleDateString(1),
     timestamp |-> 1]

\* what the other client writes: the notes, or the rating
OtherClientData == {[notes |-> "N"], [notes |-> ""], [rating |-> 3]}

\* the component mounted while the store holds one food record
ClientsInit ==
    /\ currentTab = "food"
    /\ foodRecords = <<>>
    /\ category = DefaultCategory
    /\ brand = ""
    /\ flavor = ""
    /\ rating = 0
    /\ notes = ""
    /\ filterCategory = "all"
    /\ sortBy = "date"
    /\ weightRecords = <<>>
    /\ weightInput = <<>>
    /\ measureDate \in DateInputs \ {NoDate}
    /\ shoppingList = <<>>
    /\ shopName = ""
    /\ shopNote = ""
    /\ isSubmitting = FALSE
    /\ editingId = NoId
    /\ dbRecords = [i \in {1} |-> ClientsDoc]
    /\ nextId = 2
    /\ dbWeight = EmptyDb
    /\ dbShopping = EmptyDb
    /\ pending = <<>>
    /\ now = MaxClock
    /\ alertMsg = ""
    /\ consoleErr = FALSE

\* two clients on one record: this one edits it and changes its brand
\* only, the other one changes its notes or its rating
ClientsNext ==
    \/ \E b \in {"A", "B"} : setBrand(b)
    \/ handleFoodSubmit
    \/ \E i \in 1..Len(foodRecords) : handleEdit(foodRecords[i])
    \/ handleCancelEdit
    \/ \E k \in 1..Len(pending) :
         \/ StoreApply(k)
         \/ StoreReject(k)
         \/ handleFoodSubmitResume(k)
    \/ \E id \in DOMAIN dbRecords :
         \E data \in OtherClientData : OtherClientUpdate(id, data)
    \/ FoodSnapshot

ClientsSpec == ClientsInit /\ [][ClientsNext]_vars

\* the weight tab: what the user types in the number input and picks in the
\* date input, the submission, the list and its delete buttons
WeightNext ==
    \/ setCurrentTab("weight")
    \/ \E text \in WeightTexts : setWeightInput(NumberInputValue(text))
    \/ \E d \in WeightDates : setMeasureDate(d)
    \/ handleWeightSubmit
    \/ \E id \in Ids(weightRecords) : \E confirmed \in BOOLEAN :
         handleDelete(id, "weight_records", confirmed)
    \/ \E k \in 1..Len(pending) :
         \/ StoreApply(k)
         \/ StoreReject(k)
         \/ handleWeightSubmitResume(k)
         \/ handleDeleteResume(k)
    \/ WeightSnapshot

WeightSpec == Init /\ [][WeightNext]_vars

\* the subscriptions keep delivering: a snapshot that differs from what the
\* store holds is eventually replaced
SyncNext ==
    \/ \E t \in {"food", "shopping"} : setCurrentTab(t)
    \/ setBrand("A")
    \/ setFlavor("F")
    \/ setRating(NumStars)
    \/ \E n \in ShopNameInputs : setShopName(n)
    \/ handleFoodSubmit
    \/ handleShoppingSubmit
    \/ \E i \in 1..Len(foodRecords) : handleEdit(foodRecords[i])
    \/ \E col \in {"records", "shopping_list"} :
         \E id \in Ids(ListOf(col)) : handleDelete(id, col, TRUE)
    \/ \E i \in 1..Len(shoppingList) : toggleBought(shoppingList[i])
    \/ \E k \in 1..Len(pending) :
         \/ StoreApply(k)
         \/ StoreReject(k)
         \/ handleFoodSubmitResume(k)
         \/ handleShoppingSubmitResume(k)
         \/ handleDeleteResume(k)
         \/ toggleBoughtResume(k)
    \/ FoodSnapshot
    \/ ShoppingSnapshot

FairSyncSpec ==
    /\ Init
    /\ [][SyncNext]_vars
    /\ WF_vars(FoodSnapshot)
    /\ WF_vars(ShoppingSnapshot)

\* ================================================================= claims
MutableFoodFields == {"category", "brand", "flavor", "rating", "notes"}

\* the step issues exactly one remote call, the last of pending'
IssuesOneCall ==
    /\ Len(pending') = Len(pending) + 1
    /\ SubSeq(pending', 1, Len(pending)) = pending

IssuedCall == pending'[Len(pending')]

\* the step runs the continuation of the call at position k
Completes(k) ==
    /\ pending[k].status \in {"ok", "err"}
    /\ Len(pending') = Len(pending) - 1
    /\ pending' = RemoveAt(pending, k)

\* C1: a valid submission of the food form issues exactly one call on
\* 'records': an insert when editingId is null, and a partial update of the
\* record editingId otherwise.
C1_SubmitRoutesBySession ==
    [][(handleFoodSubmit /\ brand # "" /\ flavor # "" /\ rating # 0) =>
         /\ IssuesOneCall
         /\ IssuedCall.col = "records"
         /\ IF editingId = NoId
            THEN IssuedCall.op = "add"
            ELSE /\ IssuedCall.op = "update"
                 /\ IssuedCall.id = editingId
                 /\ DOMAIN IssuedCall.data = MutableFoodFields]_vars

\* an update of the record being edited is in flight
C1_Witness ==
    \E k \in 1..Len(pending) :
        /\ pending[k].handler = "food"
        /\ pending[k].op = "update"
        /\ pending[k].id = editingId
        /\ isSubmitting

\* C3: a valid submission while Idle issues exactly one insert into
\* 'records', and isSubmitting is false when the code after the await has
\* run, whether the insert was performed or rejected.
C3_CreateOneInsertFlagCleared ==
    [][/\ (handleFoodSubmit /\ brand # "" /\ flavor # "" /\ rating # 0
             /\ editingId = NoId) =>
          /\ IssuesOneCall
          /\ IssuedCall.op = "add"
          /\ IssuedCall.col = "records"
       /\ \A k \in 1..Len(pending) :
            (/\ pending[k].handler = "food"
             /\ pending[k].op = "add"
             /\ Completes(k)) => ~isSubmitting']_vars

\* the only call ever issued was an insert, it was rejected and the handler
\* has finished
C3_Witness ==
    /\ alertMsg = MsgFoodFailed
    /\ nextId = 2
    /\ dbRecords = EmptyDb
    /\ pending = <<>>
    /\ ~isSubmitting

\* C4: a submission with an empty brand, an empty flavor or rating 0 issues
\* no call, leaves isSubmitting false and the form and the edit session as
\* they were, and shows the validation message.
C4_InvalidFoodNoCall ==
    [][(handleFoodSubmit /\ (brand = "" \/ flavor = "" \/ rating = 0)) =>
         /\ UNCHANGED <<pending, isSubmitting, formVars, editingId>>
         /\ ~isSubmitting'
         /\ alertMsg' = MsgFoodInvalid]_vars

\* an invalid submission was refused during an edit session
C4_Witness ==
    /\ alertMsg = MsgFoodInvalid
    /\ editingId # NoId
    /\ ~isSubmitting

\* C5: no step changes the date or the timestamp of a stored food record,
\* and every update sent to 'records' carries only category, brand, flavor,
\* rating and notes.
C5_DateTimestampImmutable ==
    [][/\ \A i \in DOMAIN dbRecords \cap DOMAIN dbRecords' :
            /\ dbRecords'[i].date = dbRecords[i].date
            /\ dbRecords'[i].timestamp = dbRecords[i].timestamp
       /\ \A k \in 1..Len(pending') :
            (pending'[k].col = "records" /\ pending'[k].op = "update") =>
               DOMAIN pending'[k].data = MutableFoodFields]_vars

\* an update that changed the category of a stored record was performed
C5_Witness ==
    \E k \in 1..Len(pending) :
        /\ pending[k].col = "records"
        /\ pending[k].op = "update"
        /\ pending[k].status = "ok"
        /\ pending[k].id \in DOMAIN dbRecords
        /\ \E i \in 1..Len(foodRecords) :
             /\ foodRecords[i].id = pending[k].id
             /\ foodRecords[i].category # dbRecords[pending[k].id].category
             /\ foodRecords[i].timestamp
                  = dbRecords[pending[k].id].timestamp

\* C2: when a food snapshot that lacks the record being edited is
\* delivered, the controller returns to Idle with the staged fields cleared.
C2_SnapshotLackingIdEndsEdit ==
    [][(/\ foodRecords' # foodRecords
        /\ editingId # NoId
        /\ editingId \notin Ids(foodRecords')) =>
         /\ editingId' = NoId
         /\ brand' = ""
         /\ flavor' = ""
         /\ rating' = 0
         /\ notes' = ""]_vars

Submissions == {"food", "weight", "shopping"}

\* C6: isSubmitting goes from true to false only in the step that runs the
\* continuation of a submission whose call the store has answered; that
\* step does clear it; and, the store answering and the continuation
\* running, a set flag is eventually cleared.
C6_FlagClearedAtCompletion ==
    /\ [][(isSubmitting /\ ~isSubmitting') =>
            \E k \in 1..Len(pending) :
                pending[k].handler \in Submissions /\ Completes(k)]_vars
    /\ [][\A k \in 1..Len(pending) :
            (pending[k].handler \in Submissions /\ Completes(k)) =>
               isSubmitting /\ ~isSubmitting']_vars
    /\ (isSubmitting ~> ~isSubmitting)

\* a rejected weight submission has completed while a delete is in flight
C6_Witness ==
    /\ alertMsg = MsgWeightFailed
    /\ ~isSubmitting
    /\ \E k \in 1..Len(pending) : pending[k].handler = "delete"

\* C7: at most one submission of this client (food, weight or shopping) is
\* outstanding, and isSubmitting is set while it is.
C7_AtMostOneSubmission ==
    LET subs == {k \in 1..Len(pending) : pending[k].handler \in Submissions}
    IN /\ Cardinality(subs) <= 1
       /\ subs # {} => isSubmitting

\* a food submission and a delete are outstanding while the weight form
\* holds a valid input
C7_Witness ==
    /\ Len(pending) = 2
    /\ \E k \in 1..Len(pending) : pending[k].handler = "food"
    /\ currentTab = "weight"
    /\ ~(weightInput = <<>> \/ measureDate = NoDate)
    /\ isSubmitting

\* the insert carries the form's fields, a date and a timestamp
InsertCarriesForm ==
    (handleFoodSubmit /\ brand # "" /\ flavor # "" /\ rating # 0
       /\ editingId = NoId) =>
        /\ IssuesOneCall
        /\ IssuedCall.op = "add"
        /\ IssuedCall.data =
             [category |-> category, brand |-> brand, flavor |-> flavor,
              rating |-> rating, notes |-> notes,
              date |-> toLocaleDateString(now), timestamp |-> now]

\* the step runs the code after a performed insert into 'records'
InsertSucceeded(k) ==
    /\ pending[k].handler = "food"
    /\ pending[k].op = "add"
    /\ pending[k].status = "ok"
    /\ Completes(k)

FormReset ==
    /\ brand' = ""
    /\ flavor' = ""
    /\ notes' = ""
    /\ rating' = 0
    /\ category' = DefaultCategory

\* C8 as stated: after a successful create the session is Idle and the form
\* is reset.
C8_CreateEndsIdleFormReset ==
    [][/\ InsertCarriesForm
       /\ \A k \in 1..Len(pending) :
            InsertSucceeded(k) => editingId' = NoId /\ FormReset]_vars

\* C8 amended: after a successful create the form is reset and the edit
\* session is what it was before the completion (Idle, unless an edit was
\* started while the insert was in flight).
C8_CreateKeepsSessionFormReset ==
    [][/\ InsertCarriesForm
       /\ \A k \in 1..Len(pending) :
            InsertSucceeded(k) => editingId' = editingId /\ FormReset]_vars

\* an insert of a record of another category has completed: the record is
\* stored, the session is Idle and the form is back to its defaults
C8_Witness ==
    /\ pending = <<>>
    /\ ~isSubmitting
    /\ editingId = NoId
    /\ alertMsg = MsgNone
    /\ brand = "" /\ flavor = "" /\ rating = 0 /\ notes = ""
    /\ category = DefaultCategory
    /\ foodRecords = <<>>
    /\ \E i \in DOMAIN dbRecords : dbRecords[i].category # DefaultCategory

\* C9: the controller leaves Editing(id) only by cancel, by the completion
\* of a successful update of id, or by the completion of a delete of id.
C9_LeavesEditingOnlyForSameId ==
    [][(editingId # NoId /\ editingId' = NoId) =>
         \/ handleCancelEdit
         \/ \E k \in 1..Len(pending) :
              /\ Completes(k)
              /\ pending[k].status = "ok"
              /\ pending[k].col = "records"
              /\ pending[k].op \in {"update", "delete"}
              /\ pending[k].id = editingId]_vars

\* C10 as stated: cancel ends the session, resets category, brand, flavor,
\* rating and notes, and issues no call.
C10_CancelResetsAllFields ==
    [][handleCancelEdit =>
         /\ editingId' = NoId
         /\ brand' = "" /\ flavor' = "" /\ rating' = 0 /\ notes' = ""
         /\ category' = DefaultCategory
         /\ UNCHANGED <<pending, dbVars>>]_vars

\* C10 amended: cancel ends the session, clears brand, flavor, rating and
\* notes, leaves the category as staged, and issues no call.
C10_CancelClearsAllButCategory ==
    [][handleCancelEdit =>
         /\ editingId' = NoId
         /\ brand' = "" /\ flavor' = "" /\ rating' = 0 /\ notes' = ""
         /\ category' = category
         /\ UNCHANGED <<pending, dbVars, isSubmitting>>]_vars

\* the session was ended while its update is still unanswered, and the form
\* is cleared but for the staged category
C10_Witness ==
    /\ editingId = NoId
    /\ brand = "" /\ flavor = "" /\ rating = 0 /\ notes = ""
    /\ category # DefaultCategory
    /\ Len(pending) = 1
    /\ pending[1].handler = "food"
    /\ pending[1].op = "update"
    /\ pending[1].status = "sent"

\* the step runs the code after a performed update of a food record
UpdateSucceeded(k) ==
    /\ pending[k].handler = "food"
    /\ pending[k].op = "update"
    /\ pending[k].status = "ok"
    /\ Completes(k)

\* the next valid submission is a create: the session is Idle, the submit
\* button is enabled, and a valid submission while Idle issues an insert
NextSubmissionCreates ==
    /\ \A k \in 1..Len(pending) :
         UpdateSucceeded(k) => editingId' = NoId /\ ~isSubmitting'
    /\ (handleFoodSubmit /\ ~FoodInvalid /\ editingId = NoId) =>
         IssuesOneCall /\ IssuedCall.op = "add"

\* C11 as stated: after a successful update the controller is Idle, the
\* staged fields (category, brand, flavor, rating, notes) are cleared to the
\* form's defaults, the user is told of the success, and the next valid
\* submission is a create.
C11_UpdateEndsIdleAllCleared ==
    [][/\ \A k \in 1..Len(pending) :
            UpdateSucceeded(k) =>
              /\ editingId' = NoId
              /\ brand' = "" /\ flavor' = "" /\ rating' = 0 /\ notes' = ""
              /\ category' = DefaultCategory
              /\ alertMsg' = MsgUpdated
       /\ NextSubmissionCreates]_vars

\* C11 amended: after a successful update the controller is Idle, brand,
\* flavor, rating and notes are cleared, the form category stays as it is,
\* the user is told of the success, and the next valid submission is a
\* create.
C11_UpdateEndsIdleKeepsCategory ==
    [][/\ \A k \in 1..Len(pending) :
            UpdateSucceeded(k) =>
              /\ editingId' = NoId
              /\ brand' = "" /\ flavor' = "" /\ rating' = 0 /\ notes' = ""
              /\ category' = category
              /\ alertMsg' = MsgUpdated
       /\ NextSubmissionCreates]_vars

\* a performed update has completed: the success is shown, the session is
\* Idle, the form is cleared but for the category of the updated record
C11_Witness ==
    /\ alertMsg = MsgUpdated
    /\ editingId = NoId
    /\ ~isSubmitting
    /\ brand = "" /\ flavor = "" /\ rating = 0 /\ notes = ""
    /\ category # DefaultCategory
    /\ \E i \in DOMAIN dbRecords : dbRecords[i].category = category

\* C12: a declined confirmation issues no call and leaves the edit session,
\* the three forms, the snapshots and the store as they were, in each of the
\* three collections; and a delete call is issued only by a confirmed
\* delete.
C12_DeclinedDeleteDoesNothing ==
    [][/\ \A col \in Collections : \A id \in Ids(ListOf(col)) :
            handleDelete(id, col, FALSE) =>
               UNCHANGED <<pending, editingId, formVars, weightFormVars,
                           shopFormVars, snapVars, dbVars, isSubmitting>>
       /\ (Len(pending') > Len(pending) /\ IssuedCall.op = "delete") =>
            \E col \in Collections : \E id \in Ids(ListOf(col)) :
               /\ handleDelete(id, col, TRUE)
               /\ IssuedCall.col = col
               /\ IssuedCall.id = id]_vars

\* a food record is being edited and a shopping item is listed, with no
\* call in flight: the state a declined delete of either leaves as it is
C12_Witness ==
    /\ editingId \in Ids(foodRecords)
    /\ brand # ""
    /\ shoppingList # <<>>
    /\ currentTab = "shopping"
    /\ pending = <<>>
    /\ alertMsg = MsgNone

\* C13: when the remote call of a create, an update, a delete or a toggle
\* fails, the handler shows a notification, logs the error, and issues no
\* further call.
C13_FailureNotifiedAndLogged ==
    [][\A k \in 1..Len(pending) :
          (pending[k].status = "err" /\ Completes(k)) =>
             /\ alertMsg' # MsgNone
             /\ consoleErr']_vars

\* C14: a local snapshot changes only in the step in which its own
\* subscription delivers the store's snapshot; no handler step, before or
\* after its remote call, changes one.
C14_SnapshotsOnlyBySubscription ==
    [][/\ foodRecords' # foodRecords => FoodSnapshot
       /\ weightRecords' # weightRecords => WeightSnapshot
       /\ shoppingList' # shoppingList => ShoppingSnapshot]_vars

\* a toggle has been performed and its handler has finished while the local
\* list still shows the item as not bought
C14_Witness ==
    /\ pending = <<>>
    /\ \E i \in 1..Len(shoppingList) :
         /\ shoppingList[i].id \in DOMAIN dbShopping
         /\ ~shoppingList[i].isBought
         /\ dbShopping[shoppingList[i].id].isBought

\* C16: toggleBought(item) issues exactly one update of item.id in
\* 'shopping_list' whose only field is isBought, the negation of
\* item.isBought; performing it changes nothing else in the store.
C16_ToggleWritesOnlyIsBought ==
    [][/\ \A i \in 1..Len(shoppingList) :
            toggleBought(shoppingList[i]) =>
               /\ IssuesOneCall
               /\ IssuedCall.op = "update"
               /\ IssuedCall.col = "shopping_list"
               /\ IssuedCall.id = shoppingList[i].id
               /\ IssuedCall.data = [isBought |-> ~shoppingList[i].isBought]
               /\ UNCHANGED dbVars
       /\ \A k \in 1..Len(pending) :
            (pending[k].handler = "toggle" /\ StoreApply(k)) =>
               /\ dbShopping' =
                    [dbShopping EXCEPT ![pending[k].id].isBought =
                                          pending[k].data.isBought]
               /\ UNCHANGED <<dbRecords, dbWeight>>]_vars

\* two items are stored, one toggled to bought and the other not, both with
\* their name and timestamp
C16_Witness ==
    \E i, j \in DOMAIN dbShopping :
        /\ dbShopping[i].isBought
        /\ ~dbShopping[j].isBought
        /\ dbShopping[i].name \in ShopNameInputs
        /\ dbShopping[i].timestamp < dbShopping[j].timestamp

\* the local snapshot of each collection is what the store holds
FoodInSync == foodRecords = QuerySnapshot(dbRecords, "timestamp", TRUE)
ShoppingInSync == shoppingList = QuerySnapshot(dbShopping, "timestamp", TRUE)

\* the code after the await of the call at position k
Resume(k) ==
    \/ handleFoodSubmitResume(k)
    \/ handleWeightSubmitResume(k)
    \/ handleShoppingSubmitResume(k)
    \/ handleDeleteResume(k)
    \/ toggleBoughtResume(k)

\* C15: the subscriptions delivering, a local snapshot that lacks the effect
\* of a performed insert, update, delete or toggle is eventually replaced by
\* one that holds what the store holds (from any state, the snapshot is
\* later equal to the store's collection); and the code after the await of
\* a performed call can run whether or not the snapshot has been delivered.
C15_SnapshotEventuallyShowsEffect ==
    /\ []<>FoodInSync
    /\ []<>ShoppingInSync
    /\ [](\A k \in 1..Len(pending) :
            pending[k].status = "ok" => ENABLED Resume(k))

\* a toggle has been performed and its handler has finished before the
\* snapshot showing it was delivered, the food list being in the same
\* position after an insert
C15_Witness ==
    /\ pending = <<>>
    /\ ~ShoppingInSync
    /\ ~FoodInSync
    /\ \E i \in 1..Len(shoppingList) :
         /\ shoppingList[i].id \in DOMAIN dbShopping
         /\ dbShopping[shoppingList[i].id].isBought # shoppingList[i].isBought

\* C17: a weight submission whose weight does not parse as a positive
\* number (empty, zero, negative, not a number) or whose date is empty
\* shows the validation message and issues no insert.
C17_InvalidWeightNoInsert ==
    [][(/\ handleWeightSubmit
        /\ \/ ParseFloat(weightInput) = NaN
           \/ ParseFloat(weightInput) <= 0
           \/ measureDate = NoDate) =>
         /\ UNCHANGED <<pending, isSubmitting>>
         /\ alertMsg' = MsgWeightInvalid]_vars

\* C18: every insert and update handleFoodSubmit issues, and every food
\* record the store holds, has a rating among 1, 2, 3, 4, 5.
C18_WrittenRatingInRange ==
    /\ \A k \in 1..Len(pending) :
         pending[k].handler = "food" => pending[k].data.rating \in 1..5
    /\ \A i \in DOMAIN dbRecords : dbRecords[i].rating \in 1..5

\* a record stored with one star is being updated to three stars while the
\* form, reset by an earlier cancel or completion, was filled in again
C18_Witness ==
    \E k \in 1..Len(pending) :
        /\ pending[k].handler = "food"
        /\ pending[k].op = "update"
        /\ pending[k].data.rating = 3
        /\ pending[k].id \in DOMAIN dbRecords
        /\ dbRecords[pending[k].id].rating = 1
        /\ \E j \in DOMAIN dbRecords : dbRecords[j].rating = 4

\* the label the rule gives for n elapsed days
LabelOfDays(n) ==
    IF n < 30 THEN Decimal(n) \o <<"tian">>
    ELSE IF n % 30 < 5 THEN Decimal(n \div 30) \o <<"geyue">>
    ELSE Decimal(n \div 30) \o <<"geyue">> \o Decimal(n % 30) \o <<"tian">>

\* the date as many days on the other side of the birth date
Mirrored(date) == 2 * DUDU_BIRTHDAY - date

\* C19: the age label of a date is the label of n, the absolute number of
\* days between the date and the birth date: "n tian" when n < 30, else
\* "m geyue" when n mod 30 < 5 and "m geyue r tian" otherwise, with
\* m = n div 30 and r = n mod 30; a date k days before the birth date has
\* the label of the date k days after it.
C19_AgeLabelOfAbsoluteDays ==
    /\ calculateAgeLabel(measureDate)
         = LabelOfDays(Abs(measureDate - DUDU_BIRTHDAY))
    /\ calculateAgeLabel(Mirrored(measureDate))
         = calculateAgeLabel(measureDate)
    /\ \A i \in 1..Len(weightRecords) :
         chartData[i].ageLabel
           = LabelOfDays(Abs(weightRecords[i].date - DUDU_BIRTHDAY))

\* a weight recorded 35 days before the birth date is listed with the label
\* "1 geyue 5 tian"
C19_Witness ==
    /\ weightRecords # <<>>
    /\ weightRecords[1].date = DUDU_BIRTHDAY - 35
    /\ chartData[1].ageLabel = <<"1", "geyue", "5", "tian">>

\* the label of the date `elapsed` days after the birth date is `label`,
\* for the date in the form and for the listed weights of that date
LabelAt(elapsed, label) ==
    /\ measureDate = DUDU_BIRTHDAY + elapsed =>
         calculateAgeLabel(measureDate) = label
    /\ \A i \in 1..Len(weightRecords) :
         weightRecords[i].date = DUDU_BIRTHDAY + elapsed =>
            chartData[i].ageLabel = label

\* C20 as stated: the label is "0 tian" on the birth date, "1 geyue" 30
\* days after, "1 geyue 3 tian" 33 days after, and "1 geyue" 34 days after.
C20_BoundaryLabelsAsStated ==
    /\ LabelAt(0, <<"0", "tian">>)
    /\ LabelAt(30, <<"1", "geyue">>)
    /\ LabelAt(33, <<"1", "geyue", "3", "tian">>)
    /\ LabelAt(34, <<"1", "geyue">>)

\* C20 amended: the label is "0 tian" on the birth date, "1 geyue" 30, 33
\* and 34 days after (remainders 0, 3 and 4 are below 5), and
\* "1 geyue 5 tian" 35 days after.
C20_BoundaryLabels ==
    /\ LabelAt(0, <<"0", "tian">>)
    /\ LabelAt(30, <<"1", "geyue">>)
    /\ LabelAt(33, <<"1", "geyue">>)
    /\ LabelAt(34, <<"1", "geyue">>)
    /\ LabelAt(35, <<"1", "geyue", "5", "tian">>)

\* a weight recorded 33 days after the birth date is listed, with the
\* label "1 geyue"
C20_Witness ==
    /\ measureDate = DUDU_BIRTHDAY + 33
    /\ weightRecords # <<>>
    /\ weightRecords[1].date = measureDate
    /\ chartData[1].ageLabel = <<"1", "geyue">>

\* the position of the record in the food snapshot
Pos(rec) == CHOOSE i \in 1..Len(foodRecords) : foodRecords[i] = rec

\* a is to come before b under the sort key
Before(a, b, key) ==
    CASE key = "date" -> a.timestamp > b.timestamp
      [] key = "rating" -> a.rating > b.rating
      [] key = "brand" -> localeCompare(a.brand, b.brand) < 0

\* C21: the displayed records are exactly the records of the snapshot whose
\* category is the filter (all of them for 'all'), each once, ordered by
\* timestamp descending for 'date', rating descending for 'rating' and
\* brand ascending for 'brand', records of equal key in the order of the
\* snapshot.
C21_ProjectionFiltersAndSorts ==
    LET shown == displayedRecords
        wanted == {i \in 1..Len(foodRecords) :
                      filterCategory = "all"
                        \/ foodRecords[i].category = filterCategory}
    IN /\ Len(shown) = Cardinality(wanted)
       /\ {shown[i] : i \in 1..Len(shown)} = {foodRecords[i] : i \in wanted}
       /\ \A i, j \in 1..Len(shown) :
            i < j =>
              /\ ~Before(shown[j], shown[i], sortBy)
              /\ ~Before(shown[i], shown[j], sortBy) =>
                   Pos(shown[i]) < Pos(shown[j])

\* three records are shown by brand: the first two have the same brand and
\* keep the order of the snapshot, and the last one, of another brand, is
\* the first of the snapshot
C21_Witness ==
    /\ sortBy = "brand"
    /\ Len(foodRecords) = 3
    /\ Len(displayedRecords) = 3
    /\ displayedRecords[1].brand = displayedRecords[2].brand
    /\ displayedRecords[3] = foodRecords[1]
    /\ displayedRecords[1] = foodRecords[2]

\* C26: computing the projection leaves the food snapshot held in state as
\* it was, content and order, whatever the filter and the sort key; and
\* computing it again from that snapshot gives the same sequence.
C26_ProjectionKeepsSnapshot ==
    [][/\ \A f \in Filters : setFilterCategory(f) => foodRecords' = foodRecords
       /\ \A key \in SortKeys : setSortBy(key) => foodRecords' = foodRecords
       /\ LET first == Render(foodRecords, filterCategory, sortBy)
          IN /\ first.snapshot = foodRecords
             /\ Render(first.snapshot, filterCategory, sortBy).displayed
                  = first.displayed]_vars

\* the snapshot holds three records in the order delivered while they are
\* shown in another order, by rating
C26_Witness ==
    /\ sortBy = "rating"
    /\ Len(foodRecords) = 3
    /\ foodRecords = QuerySnapshot(dbRecords, "timestamp", TRUE)
    /\ Len(displayedRecords) = 3
    /\ displayedRecords # foodRecords

\* C22: the chart series has one point per weight record, in the order of
\* the snapshot (date ascending), each with the record's id, date, weight
\* and timestamp and with the age label of the record's date.
C22_ChartSeriesMirrorsSnapshot ==
    /\ Len(chartData) = Len(weightRecords)
    /\ \A i \in 1..Len(chartData) :
         /\ DOMAIN chartData[i] = DOMAIN weightRecords[i] \cup {"ageLabel"}
         /\ \A f \in DOMAIN weightRecords[i] :
              chartData[i][f] = weightRecords[i][f]
         /\ chartData[i].ageLabel = calculateAgeLabel(weightRecords[i].date)
    /\ \A i, j \in 1..Len(chartData) :
         i < j => chartData[i].date <= chartData[j].date

\* two weights of different dates are charted, the earlier first, with
\* different labels, while the form holds a third date
C22_Witness ==
    /\ Len(chartData) = 2
    /\ chartData[1].date < chartData[2].date
    /\ chartData[1].ageLabel # chartData[2].ageLabel
    /\ chartData[1].weight # chartData[2].weight
    /\ measureDate \notin {chartData[1].date, chartData[2].date}

\* C23: an edit click on a listed food record makes it the record being
\* edited, from Idle or from another edit session, puts its category,
\* brand, flavor, rating and notes in the form, issues no call, and leaves
\* the store (so the record's date and timestamp) and the snapshots as they
\* were.
C23_EditStagesRecord ==
    [][\A i \in 1..Len(foodRecords) :
          handleEdit(foodRecords[i]) =>
             /\ editingId' = foodRecords[i].id
             /\ category' = foodRecords[i].category
             /\ brand' = foodRecords[i].brand
             /\ flavor' = foodRecords[i].flavor
             /\ rating' = foodRecords[i].rating
             /\ notes' = foodRecords[i].notes
             /\ UNCHANGED <<pending, dbVars, snapVars, isSubmitting>>]_vars

\* a record of another category is staged in the form while the update
\* submitted from the edit session of another record is still in flight
C23_Witness ==
    /\ editingId # NoId
    /\ \E i \in 1..Len(foodRecords) :
         /\ foodRecords[i].id = editingId
         /\ foodRecords[i].category = category
         /\ foodRecords[i].brand = brand
         /\ foodRecords[i].rating = rating
    /\ category # DefaultCategory
    /\ \E k \in 1..Len(pending) :
         /\ pending[k].op = "update"
         /\ pending[k].editingId \notin {NoId, editingId}

\* C24: a submission of the shopping form with an empty name issues no
\* call; with a name it issues exactly one insert into 'shopping_list' with
\* isBought false, whatever the food form and the edit session hold.
C24_ShoppingCreate ==
    [][handleShoppingSubmit =>
         IF shopName = ""
         THEN /\ UNCHANGED <<pending, dbVars, isSubmitting>>
              /\ alertMsg' = MsgShopInvalid
         ELSE /\ IssuesOneCall
              /\ IssuedCall.op = "add"
              /\ IssuedCall.col = "shopping_list"
              /\ IssuedCall.data.isBought = FALSE
              /\ IssuedCall.data.name = shopName
              /\ UNCHANGED dbVars]_vars

\* a shopping insert is in flight, issued during an edit session of a food
\* record with its staged values in the food form
C24_Witness ==
    \E k \in 1..Len(pending) :
        /\ pending[k].handler = "shopping"
        /\ pending[k].status = "sent"
        /\ pending[k].editingId # NoId
        /\ ~pending[k].data.isBought
        /\ brand # ""

\* the list is the complete content of the collection, each document with
\* its id, in the order of the field (descending or ascending)
Delivered(list, db, field, desc) ==
    /\ Len(list) = Cardinality(DOMAIN db)
    /\ Ids(list) = DOMAIN db
    /\ \A i \in 1..Len(list) : list[i] = WithId(list[i].id, db[list[i].id])
    /\ \A i, j \in 1..Len(list) :
         i < j => IF desc THEN list[i][field] >= list[j][field]
                          ELSE list[i][field] <= list[j][field]

\* C25: when a local snapshot changes, it becomes the complete content of
\* its collection in the subscription's order (food: timestamp descending,
\* weight: date ascending, shopping: timestamp descending), with nothing
\* of the previous list kept.
C25_DeliveryReplacesWholesale ==
    [][/\ foodRecords' # foodRecords =>
            Delivered(foodRecords', dbRecords', "timestamp", TRUE)
       /\ weightRecords' # weightRecords =>
            Delivered(weightRecords', dbWeight', "date", FALSE)
       /\ shoppingList' # shoppingList =>
            Delivered(shoppingList', dbShopping', "timestamp", TRUE)]_vars

\* a delete of a food record was performed and the delivery that followed
\* left a list without it, another collection holding a listed document
C25_Witness ==
    /\ \E k \in 1..Len(pending) :
         /\ pending[k].op = "delete"
         /\ pending[k].col = "records"
         /\ pending[k].status = "ok"
         /\ pending[k].id \notin Ids(foodRecords)
    /\ foodRecords = QuerySnapshot(dbRecords, "timestamp", TRUE)
    /\ Len(weightRecords) + Len(shoppingList) > 0

\* the step runs the catch block of a submission handler
SubmissionFailed(k) ==
    /\ pending[k].handler \in {"food", "weight", "shopping"}
    /\ pending[k].status = "err"
    /\ Completes(k)

\* C27 as stated: when the call of a create or an update fails, the edit
\* session and the form fields are what they were when the submission was
\* dispatched, and the in-flight flag is false.
C27_FailureLeavesDispatchState ==
    [][\A k \in 1..Len(pending) :
          SubmissionFailed(k) =>
             /\ isSubmitting' = FALSE
             /\ pending[k].handler = "food" =>
                  /\ editingId' = pending[k].editingId
                  /\ category' = pending[k].data.category
                  /\ brand' = pending[k].data.brand
                  /\ flavor' = pending[k].data.flavor
                  /\ rating' = pending[k].data.rating
                  /\ notes' = pending[k].data.notes
             /\ pending[k].handler = "weight" =>
                  /\ ParseFloat(weightInput') = pending[k].data.weight
                  /\ measureDate' = pending[k].data.date]_vars

\* C27 amended: the step that handles the failure of a create or of an
\* update changes neither the edit session nor a field of a form, and sets
\* the in-flight flag to false; the session and the fields are what the
\* user left them at, which is the state at dispatch only when the user did
\* nothing while the call was in flight.
C27_FailureChangesOnlyFlag ==
    [][\A k \in 1..Len(pending) :
          SubmissionFailed(k) =>
             /\ isSubmitting' = FALSE
             /\ UNCHANGED <<editingId, formVars, weightFormVars,
                            shopFormVars, snapVars, dbVars>>]_vars

\* an update has failed and its handler has finished: the session is still
\* open on the record with its staged values, and the submit control is
\* enabled again
C27_Witness ==
    /\ editingId \in Ids(foodRecords)
    /\ alertMsg = MsgFoodFailed
    /\ consoleErr
    /\ ~isSubmitting
    /\ pending = <<>>
    /\ brand # "" /\ flavor # "" /\ rating # 0

\* C28: the completion of a create that was in flight when an edit session
\* was started leaves the session's staged category, brand, flavor, rating
\* and notes as they are.
C28_CreateCompletionKeepsStagedFields ==
    [][\A k \in 1..Len(pending) :
          (InsertSucceeded(k) /\ editingId # NoId) =>
             UNCHANGED formVars]_vars

\* the step in which the store performs the update of a toggle
TogglePerformed(k) ==
    /\ pending[k].handler = "toggle"
    /\ pending[k].op = "update"
    /\ StoreApply(k)

\* C29: each toggle of this client that the store performs inverts the
\* stored isBought of the item, so that two toggles of the same item
\* return it to its original value, the second one issued before or after
\* the delivery of the snapshot that reflects the first.
C29_PerformedToggleInverts ==
    [][\A k \in 1..Len(pending) :
          TogglePerformed(k) =>
             dbShopping'[pending[k].id].isBought
               = ~dbShopping[pending[k].id].isBought]_vars

\* the step in which the store performs an update submitted from the food
\* form
FoodUpdatePerformed(k) ==
    /\ pending[k].handler = "food"
    /\ pending[k].op = "update"
    /\ StoreApply(k)

\* C30: an update submitted from an edit session in which the user changed
\* the brand only leaves the stored notes and rating of the record as they
\* are, so a change that another client made to them after the session was
\* staged is kept.
C30_UpdateKeepsOtherClientsFields ==
    [][\A k \in 1..Len(pending) :
          FoodUpdatePerformed(k) =>
             /\ dbRecords'[pending[k].id].notes
                  = dbRecords[pending[k].id].notes
             /\ dbRecords'[pending[k].id].rating
                  = dbRecords[pending[k].id].rating]_vars

=============================================================================
